---- MODULE Spec2Model ----
(***************************************************************************)
(* Access control and tenancy model of the garage management application:  *)
(* the tables, foreign keys, triggers and row-level security policies of   *)
(* the schema migration, and the data operations clients issue against     *)
(* them.  Every operation is evaluated as PostgreSQL evaluates it: the     *)
(* USING expressions filter the rows a statement can see, the WITH CHECK   *)
(* expressions reject the rows a statement would write, then the table     *)
(* constraints and the referential actions apply.                          *)
(***************************************************************************)
EXTENDS Integers, FiniteSets, Sequences, TLC

VARIABLES users, garages, profiles, user_roles, voitures, clients, ventes,
          now, last, ventesPage

tables == <<users, garages, profiles, user_roles, voitures, clients, ventes>>
vars == <<users, garages, profiles, user_roles, voitures, clients, ventes,
          now, last, ventesPage>>

(* ---------------- bounds of the model ---------------- *)
(* identities that can sign up, garages of a seeded database, keys a      *)
(* table can hand out, and the last reading of the clock                  *)
MaxUsers == 3
MaxGarages == 2
MaxRows == 2
MaxTime == 2

UserIds == 1..MaxUsers
GarageIds == 1..(MaxGarages + 1)
ProfileIds == 1..(MaxUsers + 1)
VoitureIds == 1..MaxRows
ClientIds == 1..MaxRows
VenteIds == 1..MaxRows

(* SQL NULL: a garage reference that is absent *)
NULL == 0

(* CREATE TYPE app_role *)
app_role == {"admin", "responsable", "employe"}

(* equality under which two NULLs are equal *)
NullSafeEq(a, b) == a = b

(* a = b in SQL: unknown, hence not true, when either side is NULL *)
SqlEq(a, b) == a # NULL /\ b # NULL /\ a = b

(* gen_random_uuid(): a key of the pool not used by any row of the table *)
FreeIds(pool, rows) == pool \ {r.id : r \in rows}
NewId(pool, rows) == CHOOSE i \in FreeIds(pool, rows) : \A j \in FreeIds(pool, rows) : i <= j

(* ---------------- security definer helpers ---------------- *)
(* the helper true of whoever holds some role *)
has_some_role(_user_id, _role) == \E r \in app_role : user_roles[<<_user_id, r>>] > 0

has_role(_user_id, _role) == user_roles[<<_user_id, _role>>] > 0

(* the helper without its WHERE clause: the garage of whichever profile comes first *)
get_first_garage(_user_id) ==
    IF profiles = {} THEN NULL
    ELSE (CHOOSE p \in profiles : \A q \in profiles : p.id <= q.id).garage_id

get_user_garage(_user_id) ==
    IF \E p \in profiles : p.user_id = _user_id
    THEN (CHOOSE p \in profiles : p.user_id = _user_id).garage_id
    ELSE NULL

(* ---------------- row-level security policies ---------------- *)
(* "Admins can manage all garages": FOR ALL, USING and WITH CHECK *)
GaragesAdminManage(uid, row) == has_role(uid, "admin")

(* the policy showing every garage to whoever is assigned to one *)
GaragesMemberView(uid, row) == get_user_garage(uid) # NULL

(* "Users can view their garage": FOR SELECT *)
GaragesUserView(uid, row) == SqlEq(row.id, get_user_garage(uid))

(* the policy showing a profile to every identity of the same garage *)
ProfilesColleagueView(uid, row) == SqlEq(row.garage_id, get_user_garage(uid))

(* "Users can view their own profile": FOR SELECT *)
ProfilesOwnView(uid, row) == row.user_id = uid

(* "Admins can manage all profiles": FOR ALL *)
ProfilesAdminManage(uid, row) == has_role(uid, "admin")

(* the policy checking the garage instead of the owner *)
ProfilesSameGarageUpdate(uid, row) == row.garage_id = get_user_garage(uid)

(* "Users can update their own profile": FOR UPDATE, USING and WITH CHECK *)
ProfilesOwnUpdate(uid, row) == row.user_id = uid

(* "Users can view their own roles": FOR SELECT *)
RolesOwnView(uid, row) == row.user_id = uid

(* the policy letting managers in as well *)
RolesManagerManage(uid, row) == has_role(uid, "admin") \/ has_role(uid, "responsable")

(* "Admins can manage all roles": FOR ALL *)
RolesAdminManage(uid, row) == has_role(uid, "admin")

(* "Authenticated users can view cars from their garage": FOR SELECT *)
VoituresView(uid, row) ==
    SqlEq(row.garage_id, get_user_garage(uid)) \/ has_role(uid, "admin")

(* the policy without its admin branch *)
VoituresManageNoAdmin(uid, row) ==
    SqlEq(row.garage_id, get_user_garage(uid)) /\ has_role(uid, "responsable")

(* "Responsables and admins can manage cars": FOR ALL *)
VoituresManage(uid, row) ==
    \/ (SqlEq(row.garage_id, get_user_garage(uid)) /\ has_role(uid, "responsable"))
    \/ has_role(uid, "admin")

(* "Users can view clients from their garage": FOR SELECT *)
ClientsView(uid, row) ==
    SqlEq(row.garage_id, get_user_garage(uid)) \/ has_role(uid, "admin")

(* the policy without the role test: every member of the garage may write *)
ClientsManageAnyMember(uid, row) ==
    SqlEq(row.garage_id, get_user_garage(uid)) \/ has_role(uid, "admin")

(* "Responsables and admins can manage clients": FOR ALL *)
ClientsManage(uid, row) ==
    \/ (SqlEq(row.garage_id, get_user_garage(uid)) /\ has_role(uid, "responsable"))
    \/ has_role(uid, "admin")

(* the policy open to every employee, whatever the garage *)
VentesViewAnyEmploye(uid, row) ==
    has_role(uid, "employe") \/ has_role(uid, "admin")

(* "Users can view sales from their garage": FOR SELECT *)
VentesView(uid, row) ==
    SqlEq(row.garage_id, get_user_garage(uid)) \/ has_role(uid, "admin")

(* the policy with the admin override the other policies have *)
VentesCreateAdminOverride(uid, row) ==
    SqlEq(row.garage_id, get_user_garage(uid)) \/ has_role(uid, "admin")

(* "Authenticated users can create sales": FOR INSERT, WITH CHECK *)
VentesCreate(uid, row) == SqlEq(row.garage_id, get_user_garage(uid))

(* the policy without the role test: every member of the garage may update *)
VentesManageAnyMember(uid, row) ==
    SqlEq(row.garage_id, get_user_garage(uid)) \/ has_role(uid, "admin")

(* "Responsables and admins can manage sales": FOR UPDATE *)
VentesManage(uid, row) ==
    \/ (SqlEq(row.garage_id, get_user_garage(uid)) /\ has_role(uid, "responsable"))
    \/ has_role(uid, "admin")

(* The permissive policies of a table that apply to a command are OR-ed;  *)
(* a command with no applicable policy is denied.  The helper functions    *)
(* are STABLE: a statement evaluates them on the tables as they were when *)
(* it started.                                                            *)
CanSelect(ent, uid, row) ==
    CASE ent = "garages"    -> GaragesAdminManage(uid, row) \/ GaragesUserView(uid, row)
      [] ent = "profiles"   -> ProfilesOwnView(uid, row) \/ ProfilesAdminManage(uid, row)
      [] ent = "user_roles" -> RolesOwnView(uid, row) \/ RolesAdminManage(uid, row)
      [] ent = "voitures"   -> VoituresView(uid, row) \/ VoituresManage(uid, row)
      [] ent = "clients"    -> ClientsView(uid, row) \/ ClientsManage(uid, row)
      [] ent = "ventes"     -> VentesView(uid, row)

CanInsert(ent, uid, row) ==
    CASE ent = "garages"    -> GaragesAdminManage(uid, row)
      [] ent = "profiles"   -> ProfilesAdminManage(uid, row)
      [] ent = "user_roles" -> RolesAdminManage(uid, row)
      [] ent = "voitures"   -> VoituresManage(uid, row)
      [] ent = "clients"    -> ClientsManage(uid, row)
      [] ent = "ventes"     -> VentesCreate(uid, row)

(* USING of the UPDATE policies on the existing row *)
UpdateUsing(ent, uid, row) ==
    CASE ent = "garages"    -> GaragesAdminManage(uid, row)
      [] ent = "profiles"   -> ProfilesAdminManage(uid, row) \/ ProfilesOwnUpdate(uid, row)
      [] ent = "user_roles" -> RolesAdminManage(uid, row)
      [] ent = "voitures"   -> VoituresManage(uid, row)
      [] ent = "clients"    -> ClientsManage(uid, row)
      [] ent = "ventes"     -> VentesManage(uid, row)

(* UPDATE policies that check the existing row only *)
UpdateCheckNothing(ent, uid, row) == TRUE

(* WITH CHECK of the UPDATE policies on the row as updated *)
UpdateCheck(ent, uid, row) ==
    CASE ent = "garages"    -> GaragesAdminManage(uid, row)
      [] ent = "profiles"   -> ProfilesAdminManage(uid, row) \/ ProfilesOwnUpdate(uid, row)
      [] ent = "user_roles" -> RolesAdminManage(uid, row)
      [] ent = "voitures"   -> VoituresManage(uid, row)
      [] ent = "clients"    -> ClientsManage(uid, row)
      [] ent = "ventes"     -> VentesManage(uid, row)

(* DELETE governed by the policies that govern UPDATE *)
CanDeleteAsUpdate(ent, uid, row) == UpdateUsing(ent, uid, row)

CanDelete(ent, uid, row) ==
    CASE ent = "garages"    -> GaragesAdminManage(uid, row)
      [] ent = "profiles"   -> ProfilesAdminManage(uid, row)
      [] ent = "user_roles" -> RolesAdminManage(uid, row)
      [] ent = "voitures"   -> VoituresManage(uid, row)
      [] ent = "clients"    -> ClientsManage(uid, row)
      [] ent = "ventes"     -> FALSE

(* ---------------- outcome of the last statement ---------------- *)
(* res: "ok"        the statement was applied (or returned the row)        *)
(*      "no_rows"   USING filtered the row out: nothing returned or changed *)
(*      "rls_error" WITH CHECK rejected the new row                        *)
(*      "constraint" a table constraint or foreign key rejected it         *)
(* admin, mgr, cg: the caller's roles and resolved garage when it started; *)
(* og, ng: garage of the existing row and of the row as written;           *)
(* oo, no: whether the existing / written row belongs to the caller uid.   *)
Outcome(ent, op, uid, og, ng, oo, no, res) ==
    [ent |-> ent, op |-> op, uid |-> uid,
     admin |-> has_role(uid, "admin"), mgr |-> has_role(uid, "responsable"),
     cg |-> get_user_garage(uid),
     og |-> og, ng |-> ng, oo |-> oo, no |-> no, res |-> res]

NoOutcome ==
    [ent |-> "none", op |-> "none", uid |-> 0, admin |-> FALSE, mgr |-> FALSE, cg |-> NULL,
     og |-> NULL, ng |-> NULL, oo |-> FALSE, no |-> FALSE, res |-> "none"]

Denied(res) == res \in {"no_rows", "rls_error"}

GarageExists(g) == \E r \in garages : r.id = g

(* ---------------- the Ventes page of a session ---------------- *)
(* ventesPage[uid]: what the page open in the session of identity uid     *)
(* holds: the lists fetchData loaded, the voiture chosen in the form, and *)
(* where handleSubmit stands ("closed": the page is not open; "loaded";   *)
(* "inserted": the vente is in, the update of the voiture is to come;     *)
(* "success" and "error": the toast handleSubmit ended with).             *)
PageClosed ==
    [pc |-> "closed", voituresDisponibles |-> {}, clients |-> {}, voiture_id |-> NULL]

NoPages == [uid \in UserIds |-> PageClosed]

(* ---------------- the rows of auth.users ---------------- *)
(* the email of an identity, and what raw_user_meta_data ->> 'nom' and     *)
(* ->> 'prenom' can yield: SQL NULL when the key is absent, or the text    *)
(* supplied at sign-up                                                     *)
Email(u) == u
Absent == "NULL"
MetaNoms == {Absent, "Dupont"}
MetaPrenoms == {Absent, "Marie"}

COALESCE(a, b) == IF a # Absent THEN a ELSE b

(* ---------------- initial state ---------------- *)
(* The migration has run; one identity has signed up and has been granted  *)
(* the admin role by the database owner.                                   *)
Init ==
    /\ users = {1}
    /\ garages = {}
    /\ profiles = {[id |-> 1, user_id |-> 1, nom |-> "Nouveau", prenom |-> "Utilisateur",
                     email |-> Email(1), garage_id |-> NULL, updated_at |-> 0]}
    /\ user_roles = [k \in UserIds \X app_role |->
                        IF k[1] = 1 /\ k[2] \in {"admin", "employe"} THEN 1 ELSE 0]
    /\ voitures = {}
    /\ clients = {}
    /\ ventes = {}
    /\ now = 0
    /\ last = NoOutcome
    /\ ventesPage = NoPages

(* ---------------- identity creation ---------------- *)
(* handle_new_user: the profile inserted for a new identity *)
handle_new_user_profile(new) ==
    [id |-> NewId(ProfileIds, profiles), user_id |-> new.id,
     nom |-> COALESCE(new.raw_user_meta_data.nom, "Nouveau"),
     prenom |-> COALESCE(new.raw_user_meta_data.prenom, "Utilisateur"),
     email |-> new.email,
     garage_id |-> NULL, updated_at |-> now]

(* the trigger function without its second insert *)
handle_new_user_no_role(new_id) == user_roles

(* handle_new_user: the role assignment inserted for a new identity *)
handle_new_user_role(new_id) ==
    [user_roles EXCEPT ![<<new_id, "employe">>] = @ + 1]

(* the AFTER INSERT trigger on_auth_user_created, in the transaction of the *)
(* insert of the row new into auth.users                                    *)
on_auth_user_created(new) ==
    /\ new.id \notin users
    /\ FreeIds(ProfileIds, profiles) # {}
    /\ users' = users \cup {new.id}
    /\ profiles' = profiles \cup {handle_new_user_profile(new)}
    /\ user_roles' = handle_new_user_role(new.id)
    /\ last' = [NoOutcome EXCEPT !.ent = "auth.users", !.op = "insert",
                                 !.uid = new.id, !.res = "ok"]
    /\ UNCHANGED <<garages, voitures, clients, ventes, now>>

(* the row a sign-up inserts into auth.users *)
AuthUser(new_id, nom, prenom) ==
    [id |-> new_id, email |-> Email(new_id),
     raw_user_meta_data |-> [nom |-> nom, prenom |-> prenom]]

(* INSERT ON auth.users, with or without names in the metadata *)
SignUp(new_id) ==
    \E nom \in MetaNoms, prenom \in MetaPrenoms :
        on_auth_user_created(AuthUser(new_id, nom, prenom))

(* ---------------- garages ---------------- *)
SelectGarage(uid, row) ==
    /\ last' = Outcome("garages", "select", uid, row.id, row.id, FALSE, FALSE,
                       IF CanSelect("garages", uid, row) THEN "ok" ELSE "no_rows")
    /\ UNCHANGED <<tables, now>>

InsertGarage(uid) ==
    /\ FreeIds(GarageIds, garages) # {}
    /\ LET new == [id |-> NewId(GarageIds, garages), updated_at |-> now]
           res == IF CanInsert("garages", uid, new) THEN "ok" ELSE "rls_error"
       IN /\ garages' = IF res = "ok" THEN garages \cup {new} ELSE garages
          /\ last' = Outcome("garages", "insert", uid, NULL, new.id, FALSE, FALSE, res)
    /\ UNCHANGED <<users, profiles, user_roles, voitures, clients, ventes, now>>

(* update_updated_at_column, BEFORE UPDATE FOR EACH ROW *)
(* the trigger function returning NEW as it came *)
update_updated_at_column_noop(new) == new

update_updated_at_column(new) == [new EXCEPT !.updated_at = now]

UpdateGarage(uid, row) ==
    /\ LET new == update_updated_at_column(row)
           res == IF ~UpdateUsing("garages", uid, row) THEN "no_rows"
                  ELSE IF ~UpdateCheck("garages", uid, new) THEN "rls_error"
                  ELSE "ok"
       IN /\ garages' = IF res = "ok" THEN (garages \ {row}) \cup {new} ELSE garages
          /\ last' = Outcome("garages", "update", uid, row.id, new.id, FALSE, FALSE, res)
    /\ UNCHANGED <<users, profiles, user_roles, voitures, clients, ventes, now>>

(* Referential actions of DELETE FROM garages, in the order the foreign    *)
(* keys were created: profiles SET NULL, then the CASCADE to voitures, to  *)
(* clients and to ventes.  ON DELETE RESTRICT is checked as soon as a      *)
(* referenced voiture or client goes, before the cascade reaches ventes.   *)
GarageDeleteRestricted(g) ==
    \E s \in ventes :
        \/ \E v \in voitures : v.garage_id = g /\ s.voiture_id = v.id
        \/ \E c \in clients : c.garage_id = g /\ s.client_id = c.id

ProfilesSetNull(g) ==
    {IF p.garage_id = g
     THEN update_updated_at_column([p EXCEPT !.garage_id = NULL])
     ELSE p : p \in profiles}

DeleteGarage(uid, row) ==
    /\ LET res == IF ~CanDelete("garages", uid, row) THEN "no_rows"
                  ELSE IF GarageDeleteRestricted(row.id) THEN "constraint"
                  ELSE "ok"
       IN /\ IF res = "ok"
             THEN /\ garages' = garages \ {row}
                  /\ profiles' = ProfilesSetNull(row.id)
                  /\ voitures' = {v \in voitures : v.garage_id # row.id}
                  /\ clients' = {c \in clients : c.garage_id # row.id}
                  /\ ventes' = {s \in ventes : s.garage_id # row.id}
             ELSE UNCHANGED <<garages, profiles, voitures, clients, ventes>>
          /\ last' = Outcome("garages", "delete", uid, row.id, NULL, FALSE, FALSE, res)
    /\ UNCHANGED <<users, user_roles, now>>

(* ---------------- profiles ---------------- *)
SelectProfile(uid, row) ==
    /\ last' = Outcome("profiles", "select", uid, row.garage_id, row.garage_id,
                       row.user_id = uid, row.user_id = uid,
                       IF CanSelect("profiles", uid, row) THEN "ok" ELSE "no_rows")
    /\ UNCHANGED <<tables, now>>

(* user_id REFERENCES auth.users, UNIQUE(user_id), garage_id REFERENCES garages *)
ProfileConstraints(new, others) ==
    /\ new.user_id \in users
    /\ \A p \in others : p.user_id # new.user_id
    /\ new.garage_id = NULL \/ GarageExists(new.garage_id)

InsertProfile(uid, user_id, garage_id) ==
    /\ FreeIds(ProfileIds, profiles) # {}
    /\ LET new == [id |-> NewId(ProfileIds, profiles), user_id |-> user_id,
                   nom |-> "Dupont", prenom |-> "Marie", email |-> NULL,
                   garage_id |-> garage_id, updated_at |-> now]
           res == IF ~CanInsert("profiles", uid, new) THEN "rls_error"
                  ELSE IF ~ProfileConstraints(new, profiles) THEN "constraint"
                  ELSE "ok"
       IN /\ profiles' = IF res = "ok" THEN profiles \cup {new} ELSE profiles
          /\ last' = Outcome("profiles", "insert", uid, NULL, garage_id,
                             FALSE, user_id = uid, res)
    /\ UNCHANGED <<users, garages, user_roles, voitures, clients, ventes, now>>

UpdateProfile(uid, row, user_id, garage_id) ==
    /\ LET new == update_updated_at_column(
                      [row EXCEPT !.user_id = user_id, !.garage_id = garage_id])
           res == IF ~UpdateUsing("profiles", uid, row) THEN "no_rows"
                  ELSE IF ~UpdateCheck("profiles", uid, new) THEN "rls_error"
                  ELSE IF ~ProfileConstraints(new, profiles \ {row}) THEN "constraint"
                  ELSE "ok"
       IN /\ profiles' = IF res = "ok" THEN (profiles \ {row}) \cup {new} ELSE profiles
          /\ last' = Outcome("profiles", "update", uid, row.garage_id, garage_id,
                             row.user_id = uid, user_id = uid, res)
    /\ UNCHANGED <<users, garages, user_roles, voitures, clients, ventes, now>>

(* ventes.employe_id REFERENCES profiles ON DELETE RESTRICT *)
ProfileDeleteRestricted(row) == \E s \in ventes : s.employe_id = row.id

DeleteProfile(uid, row) ==
    /\ LET res == IF ~CanDelete("profiles", uid, row) THEN "no_rows"
                  ELSE IF ProfileDeleteRestricted(row) THEN "constraint"
                  ELSE "ok"
       IN /\ profiles' = IF res = "ok" THEN profiles \ {row} ELSE profiles
          /\ last' = Outcome("profiles", "delete", uid, row.garage_id, NULL,
                             row.user_id = uid, FALSE, res)
    /\ UNCHANGED <<users, garages, user_roles, voitures, clients, ventes, now>>

(* ---------------- user_roles ---------------- *)
(* user_roles[<<u, r>>] is the number of rows with user_id = u and role = r *)
RoleRows == {k \in UserIds \X app_role : user_roles[k] > 0}
RoleRow(k) == [user_id |-> k[1], role |-> k[2]]

SelectRole(uid, k) ==
    /\ last' = Outcome("user_roles", "select", uid, NULL, NULL, k[1] = uid, k[1] = uid,
                       IF CanSelect("user_roles", uid, RoleRow(k)) THEN "ok" ELSE "no_rows")
    /\ UNCHANGED <<tables, now>>

(* the table without UNIQUE(user_id, role) *)
RoleConstraintsNoUnique(k, roles) == k[1] \in users

(* user_id REFERENCES auth.users, UNIQUE(user_id, role) *)
RoleConstraints(k, roles) == k[1] \in users /\ roles[k] = 0

InsertRole(uid, k) ==
    /\ LET res == IF ~CanInsert("user_roles", uid, RoleRow(k)) THEN "rls_error"
                  ELSE IF ~RoleConstraints(k, user_roles) THEN "constraint"
                  ELSE "ok"
       IN /\ user_roles' = IF res = "ok" THEN [user_roles EXCEPT ![k] = @ + 1]
                           ELSE user_roles
          /\ last' = Outcome("user_roles", "insert", uid, NULL, NULL, FALSE, k[1] = uid, res)
    /\ UNCHANGED <<users, garages, profiles, voitures, clients, ventes, now>>

UpdateRole(uid, k, role) ==
    /\ LET k2 == <<k[1], role>>
           rest == [user_roles EXCEPT ![k] = @ - 1]
           res == IF ~UpdateUsing("user_roles", uid, RoleRow(k)) THEN "no_rows"
                  ELSE IF ~UpdateCheck("user_roles", uid, RoleRow(k2)) THEN "rls_error"
                  ELSE IF ~RoleConstraints(k2, rest) THEN "constraint"
                  ELSE "ok"
       IN /\ user_roles' = IF res = "ok" THEN [rest EXCEPT ![k2] = @ + 1] ELSE user_roles
          /\ last' = Outcome("user_roles", "update", uid, NULL, NULL, k[1] = uid, k[1] = uid, res)
    /\ UNCHANGED <<users, garages, profiles, voitures, clients, ventes, now>>

DeleteRole(uid, k) ==
    /\ LET res == IF CanDelete("user_roles", uid, RoleRow(k)) THEN "ok" ELSE "no_rows"
       IN /\ user_roles' = IF res = "ok" THEN [user_roles EXCEPT ![k] = @ - 1]
                           ELSE user_roles
          /\ last' = Outcome("user_roles", "delete", uid, NULL, NULL, k[1] = uid, FALSE, res)
    /\ UNCHANGED <<users, garages, profiles, voitures, clients, ventes, now>>

(* ---------------- voitures ---------------- *)
SelectVoiture(uid, row) ==
    /\ last' = Outcome("voitures", "select", uid, row.garage_id, row.garage_id, FALSE, FALSE,
                       IF CanSelect("voitures", uid, row) THEN "ok" ELSE "no_rows")
    /\ UNCHANGED <<tables, now>>

(* NOT NULL alone, without the foreign key *)
GarageNotNull(new) == new.garage_id # NULL

(* garage_id NOT NULL REFERENCES garages *)
GarageRefConstraint(new) == new.garage_id # NULL /\ GarageExists(new.garage_id)

InsertVoiture(uid, garage_id) ==
    /\ FreeIds(VoitureIds, voitures) # {}
    /\ LET new == [id |-> NewId(VoitureIds, voitures), garage_id |-> garage_id,
                   disponible |-> TRUE, updated_at |-> now]
           res == IF ~CanInsert("voitures", uid, new) THEN "rls_error"
                  ELSE IF ~GarageRefConstraint(new) THEN "constraint"
                  ELSE "ok"
       IN /\ voitures' = IF res = "ok" THEN voitures \cup {new} ELSE voitures
          /\ last' = Outcome("voitures", "insert", uid, NULL, garage_id, FALSE, FALSE, res)
    /\ UNCHANGED <<users, garages, profiles, user_roles, clients, ventes, now>>

UpdateVoiture(uid, row, garage_id, disponible) ==
    /\ LET new == update_updated_at_column(
                      [row EXCEPT !.garage_id = garage_id, !.disponible = disponible])
           res == IF ~UpdateUsing("voitures", uid, row) THEN "no_rows"
                  ELSE IF ~UpdateCheck("voitures", uid, new) THEN "rls_error"
                  ELSE IF ~GarageRefConstraint(new) THEN "constraint"
                  ELSE "ok"
       IN /\ voitures' = IF res = "ok" THEN (voitures \ {row}) \cup {new} ELSE voitures
          /\ last' = Outcome("voitures", "update", uid, row.garage_id, garage_id,
                             FALSE, FALSE, res)
    /\ UNCHANGED <<users, garages, profiles, user_roles, clients, ventes, now>>

(* the foreign key without a referential action that stops the delete *)
VoitureDeleteUnrestricted(row) == FALSE

(* ventes.voiture_id REFERENCES voitures ON DELETE RESTRICT *)
VoitureDeleteRestricted(row) == \E s \in ventes : s.voiture_id = row.id

DeleteVoiture(uid, row) ==
    /\ LET res == IF ~CanDelete("voitures", uid, row) THEN "no_rows"
                  ELSE IF VoitureDeleteRestricted(row) THEN "constraint"
                  ELSE "ok"
       IN /\ voitures' = IF res = "ok" THEN voitures \ {row} ELSE voitures
          /\ last' = Outcome("voitures", "delete", uid, row.garage_id, NULL, FALSE, FALSE, res)
    /\ UNCHANGED <<users, garages, profiles, user_roles, clients, ventes, now>>

(* ---------------- clients ---------------- *)
SelectClient(uid, row) ==
    /\ last' = Outcome("clients", "select", uid, row.garage_id, row.garage_id, FALSE, FALSE,
                       IF CanSelect("clients", uid, row) THEN "ok" ELSE "no_rows")
    /\ UNCHANGED <<tables, now>>

InsertClient(uid, garage_id) ==
    /\ FreeIds(ClientIds, clients) # {}
    /\ LET new == [id |-> NewId(ClientIds, clients), garage_id |-> garage_id,
                   updated_at |-> now]
           res == IF ~CanInsert("clients", uid, new) THEN "rls_error"
                  ELSE IF ~GarageRefConstraint(new) THEN "constraint"
                  ELSE "ok"
       IN /\ clients' = IF res = "ok" THEN clients \cup {new} ELSE clients
          /\ last' = Outcome("clients", "insert", uid, NULL, garage_id, FALSE, FALSE, res)
    /\ UNCHANGED <<users, garages, profiles, user_roles, voitures, ventes, now>>

(* the update written before WITH CHECK is evaluated and not rolled back *)
UpdateClientNoRollback(uid, row, garage_id) ==
    /\ LET new == update_updated_at_column([row EXCEPT !.garage_id = garage_id])
           res == IF ~UpdateUsing("clients", uid, row) THEN "no_rows"
                  ELSE IF ~UpdateCheck("clients", uid, new) THEN "rls_error"
                  ELSE IF ~GarageRefConstraint(new) THEN "constraint"
                  ELSE "ok"
       IN /\ clients' = IF res # "no_rows" THEN (clients \ {row}) \cup {new} ELSE clients
          /\ last' = Outcome("clients", "update", uid, row.garage_id, garage_id,
                             FALSE, FALSE, res)
    /\ UNCHANGED <<users, garages, profiles, user_roles, voitures, ventes, now>>

UpdateClient(uid, row, garage_id) ==
    /\ LET new == update_updated_at_column([row EXCEPT !.garage_id = garage_id])
           res == IF ~UpdateUsing("clients", uid, row) THEN "no_rows"
                  ELSE IF ~UpdateCheck("clients", uid, new) THEN "rls_error"
                  ELSE IF ~GarageRefConstraint(new) THEN "constraint"
                  ELSE "ok"
       IN /\ clients' = IF res = "ok" THEN (clients \ {row}) \cup {new} ELSE clients
          /\ last' = Outcome("clients", "update", uid, row.garage_id, garage_id,
                             FALSE, FALSE, res)
    /\ UNCHANGED <<users, garages, profiles, user_roles, voitures, ventes, now>>

(* ventes.client_id REFERENCES clients ON DELETE RESTRICT *)
ClientDeleteRestricted(row) == \E s \in ventes : s.client_id = row.id

DeleteClient(uid, row) ==
    /\ LET res == IF ~CanDelete("clients", uid, row) THEN "no_rows"
                  ELSE IF ClientDeleteRestricted(row) THEN "constraint"
                  ELSE "ok"
       IN /\ clients' = IF res = "ok" THEN clients \ {row} ELSE clients
          /\ last' = Outcome("clients", "delete", uid, row.garage_id, NULL, FALSE, FALSE, res)
    /\ UNCHANGED <<users, garages, profiles, user_roles, voitures, ventes, now>>

(* ---------------- ventes ---------------- *)
SelectVente(uid, row) ==
    /\ last' = Outcome("ventes", "select", uid, row.garage_id, row.garage_id, FALSE, FALSE,
                       IF CanSelect("ventes", uid, row) THEN "ok" ELSE "no_rows")
    /\ UNCHANGED <<tables, now>>

(* voiture_id, client_id, employe_id and garage_id: NOT NULL REFERENCES *)
VenteConstraints(new) ==
    /\ \E v \in voitures : v.id = new.voiture_id
    /\ \E c \in clients : c.id = new.client_id
    /\ \E p \in profiles : p.id = new.employe_id
    /\ GarageRefConstraint(new)

InsertVente(uid, voiture_id, client_id, employe_id, garage_id) ==
    /\ FreeIds(VenteIds, ventes) # {}
    /\ LET new == [id |-> NewId(VenteIds, ventes), voiture_id |-> voiture_id,
                   client_id |-> client_id, employe_id |-> employe_id,
                   garage_id |-> garage_id]
           res == IF ~CanInsert("ventes", uid, new) THEN "rls_error"
                  ELSE IF ~VenteConstraints(new) THEN "constraint"
                  ELSE "ok"
       IN /\ ventes' = IF res = "ok" THEN ventes \cup {new} ELSE ventes
          /\ last' = Outcome("ventes", "insert", uid, NULL, garage_id, FALSE, FALSE, res)
    /\ UNCHANGED <<users, garages, profiles, user_roles, voitures, clients, now>>

(* ventes has no updated_at column and no BEFORE UPDATE trigger *)
UpdateVente(uid, row, garage_id) ==
    /\ LET new == [row EXCEPT !.garage_id = garage_id]
           res == IF ~UpdateUsing("ventes", uid, row) THEN "no_rows"
                  ELSE IF ~UpdateCheck("ventes", uid, new) THEN "rls_error"
                  ELSE IF ~VenteConstraints(new) THEN "constraint"
                  ELSE "ok"
       IN /\ ventes' = IF res = "ok" THEN (ventes \ {row}) \cup {new} ELSE ventes
          /\ last' = Outcome("ventes", "update", uid, row.garage_id, garage_id,
                             FALSE, FALSE, res)
    /\ UNCHANGED <<users, garages, profiles, user_roles, voitures, clients, now>>

DeleteVente(uid, row) ==
    /\ LET res == IF CanDelete("ventes", uid, row) THEN "ok" ELSE "no_rows"
       IN /\ ventes' = IF res = "ok" THEN ventes \ {row} ELSE ventes
          /\ last' = Outcome("ventes", "delete", uid, row.garage_id, NULL, FALSE, FALSE, res)
    /\ UNCHANGED <<users, garages, profiles, user_roles, voitures, clients, now>>

(* ---------------- the system ---------------- *)
(* the clock that now() reads moves on between two transactions *)
Tick ==
    /\ now < MaxTime
    /\ now' = now + 1
    /\ last' = NoOutcome
    /\ UNCHANGED tables

GarageArgs == GarageIds \cup {NULL}

(* employe_id values a statement can supply: the profiles that exist *)
EmployeArgs == {p.id : p \in profiles}

Next ==
    \/ Tick /\ UNCHANGED ventesPage
    \/ \E u \in UserIds : SignUp(u) /\ UNCHANGED ventesPage
    \/ \E uid \in users : InsertGarage(uid) /\ UNCHANGED ventesPage
    \/ \E uid \in users, row \in garages :
           SelectGarage(uid, row) /\ UNCHANGED ventesPage
    \/ \E uid \in users, row \in garages :
           UpdateGarage(uid, row) /\ UNCHANGED ventesPage
    \/ \E uid \in users, row \in garages :
           DeleteGarage(uid, row) /\ UNCHANGED ventesPage
    \/ \E uid \in users, u \in UserIds, g \in GarageArgs :
           InsertProfile(uid, u, g) /\ UNCHANGED ventesPage
    \/ \E uid \in users, row \in profiles :
           SelectProfile(uid, row) /\ UNCHANGED ventesPage
    \/ \E uid \in users, row \in profiles, u \in UserIds, g \in GarageArgs :
           UpdateProfile(uid, row, u, g) /\ UNCHANGED ventesPage
    \/ \E uid \in users, row \in profiles :
           DeleteProfile(uid, row) /\ UNCHANGED ventesPage
    \/ \E uid \in users, k \in UserIds \X app_role :
           InsertRole(uid, k) /\ UNCHANGED ventesPage
    \/ \E uid \in users, k \in RoleRows :
           SelectRole(uid, k) /\ UNCHANGED ventesPage
    \/ \E uid \in users, k \in RoleRows, r \in app_role :
           UpdateRole(uid, k, r) /\ UNCHANGED ventesPage
    \/ \E uid \in users, k \in RoleRows :
           DeleteRole(uid, k) /\ UNCHANGED ventesPage
    \/ \E uid \in users, g \in GarageArgs :
           InsertVoiture(uid, g) /\ UNCHANGED ventesPage
    \/ \E uid \in users, row \in voitures :
           SelectVoiture(uid, row) /\ UNCHANGED ventesPage
    \/ \E uid \in users, row \in voitures, g \in GarageArgs, d \in BOOLEAN :
           UpdateVoiture(uid, row, g, d) /\ UNCHANGED ventesPage
    \/ \E uid \in users, row \in voitures :
           DeleteVoiture(uid, row) /\ UNCHANGED ventesPage
    \/ \E uid \in users, g \in GarageArgs :
           InsertClient(uid, g) /\ UNCHANGED ventesPage
    \/ \E uid \in users, row \in clients :
           SelectClient(uid, row) /\ UNCHANGED ventesPage
    \/ \E uid \in users, row \in clients, g \in GarageArgs :
           UpdateClient(uid, row, g) /\ UNCHANGED ventesPage
    \/ \E uid \in users, row \in clients :
           DeleteClient(uid, row) /\ UNCHANGED ventesPage
    \/ \E uid \in users, v \in VoitureIds, c \in ClientIds, e \in EmployeArgs, g \in GarageArgs :
           InsertVente(uid, v, c, e, g) /\ UNCHANGED ventesPage
    \/ \E uid \in users, row \in ventes :
           SelectVente(uid, row) /\ UNCHANGED ventesPage
    \/ \E uid \in users, row \in ventes, g \in GarageArgs :
           UpdateVente(uid, row, g) /\ UNCHANGED ventesPage
    \/ \E uid \in users, row \in ventes :
           DeleteVente(uid, row) /\ UNCHANGED ventesPage

Spec == Init /\ [][Next]_vars

(* ---------------- one statement against a populated database ---------------- *)
(* A database the operations above can build: the identities below the    *)
(* last one have signed up, MaxGarages garages exist, identity 1 holds    *)
(* the roles roles1 and has the profile garage g1 (NoProfile: its profile *)
(* was deleted), every other identity holds roles2 and belongs to garage  *)
(* 1, and there are one voiture (garage vg), one client (garage cg) and,  *)
(* unless sg is NULL, one vente (garage sg) recorded by identity 2.        *)
NoProfile == -1
SeedUsers == UserIds \ {MaxUsers}
SeedGarages == 1..MaxGarages

Seeded(roles1, roles2, g1, vg, cg, sg) ==
    /\ users = SeedUsers
    /\ garages = {[id |-> g, updated_at |-> 0] : g \in SeedGarages}
    /\ profiles = {[id |-> u, user_id |-> u, nom |-> "Nouveau", prenom |-> "Utilisateur",
                    email |-> Email(u), garage_id |-> IF u = 1 THEN g1 ELSE 1,
                    updated_at |-> 0] : u \in {v \in SeedUsers : v # 1 \/ g1 # NoProfile}}
    /\ user_roles = [k \in UserIds \X app_role |->
                        IF k[1] = 1 THEN (IF k[2] \in roles1 THEN 1 ELSE 0)
                        ELSE IF k[1] \in SeedUsers /\ k[2] \in roles2 THEN 1 ELSE 0]
    /\ voitures = {[id |-> 1, garage_id |-> vg, disponible |-> TRUE, updated_at |-> 0]}
    /\ clients = {[id |-> 1, garage_id |-> cg, updated_at |-> 0]}
    /\ ventes = IF sg = NULL THEN {}
                ELSE {[id |-> 1, voiture_id |-> 1, client_id |-> 1, employe_id |-> 2,
                       garage_id |-> sg]}
    /\ now = 0
    /\ last = NoOutcome
    /\ ventesPage = NoPages

InitStatement ==
    \E roles1 \in SUBSET app_role, g1 \in {NoProfile, NULL} \cup SeedGarages,
       vg \in SeedGarages, cg \in SeedGarages, sg \in {NULL} \cup SeedGarages :
        Seeded(roles1, {"employe"}, g1, vg, cg, sg)

(* no statement has been evaluated yet *)
Idle == last.ent = "none"

NextStatement ==
    \/ \E u \in UserIds : Idle /\ SignUp(u) /\ UNCHANGED ventesPage
    \/ \E uid \in users : Idle /\ InsertGarage(uid) /\ UNCHANGED ventesPage
    \/ \E uid \in users, row \in garages :
           Idle /\ SelectGarage(uid, row) /\ UNCHANGED ventesPage
    \/ \E uid \in users, row \in garages :
           Idle /\ UpdateGarage(uid, row) /\ UNCHANGED ventesPage
    \/ \E uid \in users, row \in garages :
           Idle /\ DeleteGarage(uid, row) /\ UNCHANGED ventesPage
    \/ \E uid \in users, u \in UserIds, g \in GarageArgs :
           Idle /\ InsertProfile(uid, u, g) /\ UNCHANGED ventesPage
    \/ \E uid \in users, row \in profiles :
           Idle /\ SelectProfile(uid, row) /\ UNCHANGED ventesPage
    \/ \E uid \in users, row \in profiles, u \in UserIds, g \in GarageArgs :
           Idle /\ UpdateProfile(uid, row, u, g) /\ UNCHANGED ventesPage
    \/ \E uid \in users, row \in profiles :
           Idle /\ DeleteProfile(uid, row) /\ UNCHANGED ventesPage
    \/ \E uid \in users, k \in UserIds \X app_role :
           Idle /\ InsertRole(uid, k) /\ UNCHANGED ventesPage
    \/ \E uid \in users, k \in RoleRows :
           Idle /\ SelectRole(uid, k) /\ UNCHANGED ventesPage
    \/ \E uid \in users, k \in RoleRows, r \in app_role :
           Idle /\ UpdateRole(uid, k, r) /\ UNCHANGED ventesPage
    \/ \E uid \in users, k \in RoleRows :
           Idle /\ DeleteRole(uid, k) /\ UNCHANGED ventesPage
    \/ \E uid \in users, g \in GarageArgs :
           Idle /\ InsertVoiture(uid, g) /\ UNCHANGED ventesPage
    \/ \E uid \in users, row \in voitures :
           Idle /\ SelectVoiture(uid, row) /\ UNCHANGED ventesPage
    \/ \E uid \in users, row \in voitures, g \in GarageArgs, d \in BOOLEAN :
           Idle /\ UpdateVoiture(uid, row, g, d) /\ UNCHANGED ventesPage
    \/ \E uid \in users, row \in voitures :
           Idle /\ DeleteVoiture(uid, row) /\ UNCHANGED ventesPage
    \/ \E uid \in users, g \in GarageArgs :
           Idle /\ InsertClient(uid, g) /\ UNCHANGED ventesPage
    \/ \E uid \in users, row \in clients :
           Idle /\ SelectClient(uid, row) /\ UNCHANGED ventesPage
    \/ \E uid \in users, row \in clients, g \in GarageArgs :
           Idle /\ UpdateClient(uid, row, g) /\ UNCHANGED ventesPage
    \/ \E uid \in users, row \in clients :
           Idle /\ DeleteClient(uid, row) /\ UNCHANGED ventesPage
    \/ \E uid \in users, v \in VoitureIds, c \in ClientIds, e \in EmployeArgs, g \in GarageArgs :
           Idle /\ InsertVente(uid, v, c, e, g) /\ UNCHANGED ventesPage
    \/ \E uid \in users, row \in ventes :
           Idle /\ SelectVente(uid, row) /\ UNCHANGED ventesPage
    \/ \E uid \in users, row \in ventes, g \in GarageArgs :
           Idle /\ UpdateVente(uid, row, g) /\ UNCHANGED ventesPage
    \/ \E uid \in users, row \in ventes :
           Idle /\ DeleteVente(uid, row) /\ UNCHANGED ventesPage

SpecStatement == InitStatement /\ [][NextStatement]_vars

(* ---------------- the statements of the non-admin identities ---------------- *)
(* An admin (identity 2) has built the database and assigned identity 1,   *)
(* an employee, to garage 1; the voiture, the client and the vente belong  *)
(* to the last garage.  From there only identities without the admin role  *)
(* issue statements.                                                       *)
InitTenant ==
    Seeded({"employe"}, {"employe", "admin"}, 1, MaxGarages, MaxGarages, MaxGarages)

NonAdmins == {uid \in users : ~has_role(uid, "admin")}

NextTenant ==
    \/ \E uid \in NonAdmins : InsertGarage(uid) /\ UNCHANGED ventesPage
    \/ \E uid \in NonAdmins, row \in garages :
           SelectGarage(uid, row) /\ UNCHANGED ventesPage
    \/ \E uid \in NonAdmins, row \in garages :
           UpdateGarage(uid, row) /\ UNCHANGED ventesPage
    \/ \E uid \in NonAdmins, row \in garages :
           DeleteGarage(uid, row) /\ UNCHANGED ventesPage
    \/ \E uid \in NonAdmins, u \in UserIds, g \in GarageArgs :
           InsertProfile(uid, u, g) /\ UNCHANGED ventesPage
    \/ \E uid \in NonAdmins, row \in profiles :
           SelectProfile(uid, row) /\ UNCHANGED ventesPage
    \/ \E uid \in NonAdmins, row \in profiles, u \in UserIds, g \in GarageArgs :
           UpdateProfile(uid, row, u, g) /\ UNCHANGED ventesPage
    \/ \E uid \in NonAdmins, row \in profiles :
           DeleteProfile(uid, row) /\ UNCHANGED ventesPage
    \/ \E uid \in NonAdmins, k \in UserIds \X app_role :
           InsertRole(uid, k) /\ UNCHANGED ventesPage
    \/ \E uid \in NonAdmins, k \in RoleRows :
           SelectRole(uid, k) /\ UNCHANGED ventesPage
    \/ \E uid \in NonAdmins, k \in RoleRows, r \in app_role :
           UpdateRole(uid, k, r) /\ UNCHANGED ventesPage
    \/ \E uid \in NonAdmins, k \in RoleRows :
           DeleteRole(uid, k) /\ UNCHANGED ventesPage
    \/ \E uid \in NonAdmins, g \in GarageArgs :
           InsertVoiture(uid, g) /\ UNCHANGED ventesPage
    \/ \E uid \in NonAdmins, row \in voitures :
           SelectVoiture(uid, row) /\ UNCHANGED ventesPage
    \/ \E uid \in NonAdmins, row \in voitures, g \in GarageArgs, d \in BOOLEAN :
           UpdateVoiture(uid, row, g, d) /\ UNCHANGED ventesPage
    \/ \E uid \in NonAdmins, row \in voitures :
           DeleteVoiture(uid, row) /\ UNCHANGED ventesPage
    \/ \E uid \in NonAdmins, g \in GarageArgs :
           InsertClient(uid, g) /\ UNCHANGED ventesPage
    \/ \E uid \in NonAdmins, row \in clients :
           SelectClient(uid, row) /\ UNCHANGED ventesPage
    \/ \E uid \in NonAdmins, row \in clients, g \in GarageArgs :
           UpdateClient(uid, row, g) /\ UNCHANGED ventesPage
    \/ \E uid \in NonAdmins, row \in clients :
           DeleteClient(uid, row) /\ UNCHANGED ventesPage
    \/ \E uid \in NonAdmins, v \in VoitureIds, c \in ClientIds, e \in EmployeArgs, g \in GarageArgs :
           InsertVente(uid, v, c, e, g) /\ UNCHANGED ventesPage
    \/ \E uid \in NonAdmins, row \in ventes :
           SelectVente(uid, row) /\ UNCHANGED ventesPage
    \/ \E uid \in NonAdmins, row \in ventes, g \in GarageArgs :
           UpdateVente(uid, row, g) /\ UNCHANGED ventesPage
    \/ \E uid \in NonAdmins, row \in ventes :
           DeleteVente(uid, row) /\ UNCHANGED ventesPage

SpecTenant == InitTenant /\ [][NextTenant]_vars

(* ---------------- the referential actions at work ---------------- *)
(* On a populated garage the admin inserts and moves voitures, clients and *)
(* ventes, and every identity tries the deletes that the foreign keys of   *)
(* ventes restrict or that cascade from garages.                           *)
InitRefs ==
    Seeded({"admin", "employe"}, {"employe", "responsable"}, 1, 1, 1, 1)

Admins == {uid \in users : has_role(uid, "admin")}

NextRefs ==
    \/ \E uid \in users, row \in garages : DeleteGarage(uid, row) /\ UNCHANGED ventesPage
    \/ \E uid \in users, row \in profiles : DeleteProfile(uid, row) /\ UNCHANGED ventesPage
    \/ \E uid \in Admins, g \in GarageArgs : InsertVoiture(uid, g) /\ UNCHANGED ventesPage
    \/ \E uid \in Admins, row \in voitures, g \in GarageArgs :
           UpdateVoiture(uid, row, g, row.disponible) /\ UNCHANGED ventesPage
    \/ \E uid \in users, row \in voitures : DeleteVoiture(uid, row) /\ UNCHANGED ventesPage
    \/ \E uid \in Admins, g \in GarageArgs : InsertClient(uid, g) /\ UNCHANGED ventesPage
    \/ \E uid \in Admins, row \in clients, g \in GarageArgs : UpdateClient(uid, row, g) /\ UNCHANGED ventesPage
    \/ \E uid \in users, row \in clients : DeleteClient(uid, row) /\ UNCHANGED ventesPage
    \/ \E uid \in Admins, v \in VoitureIds, c \in ClientIds, e \in EmployeArgs,
          g \in GarageArgs : InsertVente(uid, v, c, e, g) /\ UNCHANGED ventesPage
    \/ \E uid \in Admins, row \in ventes, g \in GarageArgs : UpdateVente(uid, row, g) /\ UNCHANGED ventesPage

SpecRefs == InitRefs /\ [][NextRefs]_vars

(* ---------------- the role assignments ---------------- *)
(* Identities sign up, and every identity, admin or not, issues statements *)
(* on user_roles.                                                          *)
InitRoles ==
    Seeded({"admin", "employe"}, {"employe", "responsable"}, 1, 1, 1, 1)

NextRoles ==
    \/ \E u \in UserIds : SignUp(u) /\ UNCHANGED ventesPage
    \/ \E uid \in users, k \in UserIds \X app_role : InsertRole(uid, k) /\ UNCHANGED ventesPage
    \/ \E uid \in users, k \in RoleRows : SelectRole(uid, k) /\ UNCHANGED ventesPage
    \/ \E uid \in users, k \in RoleRows, r \in app_role : UpdateRole(uid, k, r) /\ UNCHANGED ventesPage
    \/ \E uid \in users, k \in RoleRows : DeleteRole(uid, k) /\ UNCHANGED ventesPage

SpecRoles == InitRoles /\ [][NextRoles]_vars

(* ---------------- the pages of the application ---------------- *)
(* what useAuth() gives a page: the profile of the signed-in identity     *)
(* (no row when it has none) and one of the roles it holds                *)
AuthProfile(uid) == {p \in profiles : p.user_id = uid}
AuthRoles(uid) == {r \in app_role : has_role(uid, r)}

(* profile?.garage_id: NULL without a profile or without a garage *)
ProfileGarage(uid) ==
    IF AuthProfile(uid) = {} THEN NULL
    ELSE (CHOOSE p \in AuthProfile(uid) : TRUE).garage_id

(* Ventes.fetchData: the available voitures and the clients the session may read *)
fetchData(uid) ==
    /\ ventesPage' = [ventesPage EXCEPT ![uid] =
           [pc |-> "loaded",
            voituresDisponibles |->
                {v.id : v \in {w \in voitures : CanSelect("voitures", uid, w) /\ w.disponible}},
            clients |-> {c.id : c \in {d \in clients : CanSelect("clients", uid, d)}},
            voiture_id |-> NULL]]
    /\ UNCHANGED <<tables, now, last>>

(* Ventes.handleSubmit up to its first await: the check of the profile and *)
(* the insert into ventes                                                  *)
VentesSubmitInsert(uid, voiture_id, client_id) ==
    /\ ventesPage[uid].pc = "loaded"
    /\ voiture_id \in ventesPage[uid].voituresDisponibles
    /\ client_id \in ventesPage[uid].clients
    /\ IF ProfileGarage(uid) = NULL
       THEN /\ ventesPage' = [ventesPage EXCEPT ![uid].pc = "error"]
            /\ UNCHANGED <<tables, now, last>>
       ELSE /\ InsertVente(uid, voiture_id, client_id,
                           (CHOOSE p \in AuthProfile(uid) : TRUE).id, ProfileGarage(uid))
            /\ ventesPage' = [ventesPage EXCEPT
                   ![uid].pc = IF last'.res = "ok" THEN "inserted" ELSE "error",
                   ![uid].voiture_id = voiture_id]

(* Ventes.handleSubmit after the insert: update voitures set disponible =   *)
(* false where id = voiture_id; an update that matches no row the caller    *)
(* may update returns no error                                              *)
VentesSubmitUpdate(uid) ==
    /\ ventesPage[uid].pc = "inserted"
    /\ \E row \in voitures :
           /\ row.id = ventesPage[uid].voiture_id
           /\ UpdateVoiture(uid, row, row.garage_id, FALSE)
           /\ ventesPage' = [ventesPage EXCEPT
                  ![uid].pc = IF last'.res \in {"rls_error", "constraint"}
                              THEN "error" ELSE "success"]

(* editingVoiture / editingClient when the form adds a row *)
NoEditing == [id |-> NULL]

(* Voitures.handleSubmit: the form always sends disponible: true and the   *)
(* garage the admin selected (the voiture's own garage when it edits and   *)
(* selects nothing else) or, for the others, the garage of the profile     *)
VoituresHandleSubmit(uid, role, editingVoiture, form_garage) ==
    LET targetGarageId == IF role = "admin" THEN form_garage ELSE ProfileGarage(uid)
    IN IF \/ (ProfileGarage(uid) = NULL /\ role # "admin" /\ form_garage = NULL)
          \/ targetGarageId = NULL
       THEN UNCHANGED <<tables, now, last>>
       ELSE IF editingVoiture # NoEditing
            THEN UpdateVoiture(uid, editingVoiture, targetGarageId, TRUE)
            ELSE InsertVoiture(uid, targetGarageId)

(* Clients.handleSubmit: the form sends garage_id: profile?.garage_id,     *)
(* which is left out of the request when there is no profile               *)
ClientsHandleSubmit(uid, role, editingClient) ==
    IF ProfileGarage(uid) = NULL /\ role # "admin"
    THEN UNCHANGED <<tables, now, last>>
    ELSE IF editingClient # NoEditing
         THEN UpdateClient(uid, editingClient,
                           IF AuthProfile(uid) = {} THEN editingClient.garage_id
                           ELSE ProfileGarage(uid))
         ELSE InsertClient(uid, ProfileGarage(uid))

(* An admin and a second identity of garage 1, an available voiture and a  *)
(* client of garage 1, no vente yet.  Both record sales through the Ventes *)
(* page and edit voitures and clients through the forms.                   *)
InitPages ==
    \E roles2 \in {{"employe"}, {"employe", "responsable"}}, g1 \in SeedGarages :
        Seeded({"admin", "employe"}, roles2, g1, 1, 1, NULL)

NextPages ==
    \/ \E uid \in users : fetchData(uid)
    \/ \E uid \in users, v \in VoitureIds, c \in ClientIds : VentesSubmitInsert(uid, v, c)
    \/ \E uid \in users : VentesSubmitUpdate(uid)
    \/ \E uid \in users : \E role \in AuthRoles(uid), g \in GarageArgs,
          row \in {v \in voitures : CanSelect("voitures", uid, v)} :
           VoituresHandleSubmit(uid, role, row, g) /\ UNCHANGED ventesPage
    \/ \E uid \in users : \E role \in AuthRoles(uid),
          row \in {c \in clients : CanSelect("clients", uid, c)} :
           ClientsHandleSubmit(uid, role, row) /\ UNCHANGED ventesPage

SpecPages == InitPages /\ [][NextPages]_vars

(* The same identities add and edit voitures and clients through the forms. *)
NextForms ==
    \/ \E uid \in users : \E role \in AuthRoles(uid), g \in GarageArgs,
          row \in {v \in voitures : CanSelect("voitures", uid, v)} :
           VoituresHandleSubmit(uid, role, row, g) /\ UNCHANGED ventesPage
    \/ \E uid \in users : \E role \in AuthRoles(uid), g \in GarageArgs :
           VoituresHandleSubmit(uid, role, NoEditing, g) /\ UNCHANGED ventesPage
    \/ \E uid \in users : \E role \in AuthRoles(uid),
          row \in {c \in clients : CanSelect("clients", uid, c)} :
           ClientsHandleSubmit(uid, role, row) /\ UNCHANGED ventesPage
    \/ \E uid \in users : \E role \in AuthRoles(uid) :
           ClientsHandleSubmit(uid, role, NoEditing) /\ UNCHANGED ventesPage

SpecForms == InitPages /\ [][NextForms]_vars

(* ---------------- the new identities ---------------- *)
(* Identities sign up into a populated garage; every identity reads the    *)
(* garages, voitures, clients and ventes and updates the garage of the     *)
(* profiles the policies let it update.                                    *)
InitNewUser ==
    Seeded({"admin", "employe"}, {"employe"}, 1, 1, 1, 1)

NextNewUser ==
    \/ \E u \in UserIds : SignUp(u) /\ UNCHANGED ventesPage
    \/ \E uid \in users, row \in profiles, g \in GarageArgs :
           UpdateProfile(uid, row, row.user_id, g) /\ UNCHANGED ventesPage
    \/ \E uid \in users, row \in garages : SelectGarage(uid, row) /\ UNCHANGED ventesPage
    \/ \E uid \in users, row \in voitures : SelectVoiture(uid, row) /\ UNCHANGED ventesPage
    \/ \E uid \in users, row \in clients : SelectClient(uid, row) /\ UNCHANGED ventesPage
    \/ \E uid \in users, row \in ventes : SelectVente(uid, row) /\ UNCHANGED ventesPage

SpecNewUser == InitNewUser /\ [][NextNewUser]_vars

(* ======================= properties ======================= *)
Entities == {"garages", "profiles", "user_roles", "voitures", "clients", "ventes"}
Scoped == {"voitures", "clients", "ventes"}
Writes == {"insert", "update", "delete"}

(* C1 as stated: every statement of an admin, on every entity, is permitted,  *)
(* whatever the admin's own garage and the garage of the row.                 *)
C1_AdminEverything ==
    (last.admin /\ last.ent \in Entities) => ~Denied(last.res)

(* C1, amended: an admin is permitted every statement on garages, profiles,   *)
(* role assignments, voitures and clients and the select and update of a      *)
(* vente, whatever its own garage and the row's; its insert of a vente is     *)
(* permitted exactly when the row's garage equals its own profile's garage,   *)
(* and its delete of a vente is denied.                                       *)
C1_AdminPermitted ==
    (last.admin /\ last.ent \in Entities) =>
        IF last.ent = "ventes" /\ last.op = "insert"
        THEN Denied(last.res) <=> ~SqlEq(last.ng, last.cg)
        ELSE IF last.ent = "ventes" /\ last.op = "delete"
        THEN Denied(last.res)
        ELSE ~Denied(last.res)

(* an admin with no garage of its own has deleted a voiture of some garage *)
C1_Witness ==
    /\ last.admin /\ last.cg = NULL
    /\ last.ent = "voitures" /\ last.op = "delete" /\ last.og # NULL
    /\ last.res = "ok"

(* C2: a non-admin whose profile has garage G reads a voiture, client or     *)
(* vente exactly when the row's garage is G; an admin reads every such row.  *)
C2_TenantRead ==
    (last.op = "select" /\ last.ent \in Scoped) =>
        /\ (~last.admin /\ last.cg # NULL) => (last.res = "ok" <=> last.og = last.cg)
        /\ (~last.admin /\ last.cg # NULL /\ last.og # last.cg) => last.res = "no_rows"
        /\ last.admin => last.res = "ok"

(* an employee of one garage has tried to read a voiture of another one *)
C2_Witness ==
    /\ ~last.admin /\ ~last.mgr /\ last.cg # NULL
    /\ last.ent = "voitures" /\ last.op = "select"
    /\ last.og # last.cg /\ last.res = "no_rows"

(* the garages of the rows a write names all equal g *)
RowGaragesAre(g) ==
    CASE last.op = "insert" -> last.ng = g
      [] last.op = "update" -> last.og = g /\ last.ng = g
      [] last.op = "delete" -> last.og = g
      [] OTHER -> last.og = g

(* C3: a non-admin manager of garage G may insert, update and delete the     *)
(* voitures and clients of G (an insert or update is applied; a delete is    *)
(* permitted by the policies) and is denied on rows of any other garage; a   *)
(* non-admin without the manager role is denied these writes on every row.   *)
C3_ManagerWrites ==
    (last.ent \in {"voitures", "clients"} /\ last.op \in Writes /\ ~last.admin) =>
        /\ (last.mgr /\ last.cg # NULL) => (Denied(last.res) <=> ~RowGaragesAre(last.cg))
        /\ (last.mgr /\ last.cg # NULL /\ RowGaragesAre(last.cg) /\ last.op # "delete")
               => last.res = "ok"
        /\ ~last.mgr => Denied(last.res)

(* a manager of one garage has been refused the insert of a voiture of another *)
C3_Witness ==
    /\ ~last.admin /\ last.mgr /\ last.cg # NULL
    /\ last.ent = "voitures" /\ last.op = "insert"
    /\ last.ng # NULL /\ last.ng # last.cg /\ last.res = "rls_error"

(* C4: the insert of a vente is permitted exactly when the row's garage is   *)
(* the garage of the caller's own profile, for every caller: it is refused   *)
(* to an admin that supplies another garage and to a caller without garage.  *)
C4_SaleInsert ==
    (last.ent = "ventes" /\ last.op = "insert") =>
        /\ Denied(last.res) <=> ~SqlEq(last.ng, last.cg)
        /\ last.res = "ok" => (last.ng = last.cg /\ last.cg # NULL)
        /\ Denied(last.res) => last.res = "rls_error"

(* an admin has been refused the insert of a vente of a garage not its own *)
C4_Witness ==
    /\ last.admin /\ last.cg # NULL
    /\ last.ent = "ventes" /\ last.op = "insert"
    /\ last.ng # NULL /\ last.ng # last.cg /\ last.res = "rls_error"

(* C5 as stated: an identity that never holds the admin role and that an    *)
(* admin assigned to garage 1 never has a statement on a voiture, client or *)
(* vente of another garage answered or applied, whatever statements it has  *)
(* issued before: only an admin changes its tenant scope.                   *)
C5_TenantScopeFixed ==
    (~last.admin /\ last.ent \in Scoped /\ last.res = "ok") =>
        (last.og \in {NULL, 1} /\ last.ng \in {NULL, 1})

(* C6 as stated: an admin's delete of a garage succeeds, removes every       *)
(* voiture, client and vente of the garage and clears the garage of every    *)
(* profile that referenced it, also when the garage has ventes.              *)
C6_GarageDeleteCascades ==
    (last.admin /\ last.ent = "garages" /\ last.op = "delete") =>
        /\ last.res = "ok"
        /\ ~GarageExists(last.og)
        /\ \A v \in voitures : v.garage_id # last.og
        /\ \A c \in clients : c.garage_id # last.og
        /\ \A s \in ventes : s.garage_id # last.og
        /\ \A p \in profiles : p.garage_id # last.og

(* C7: creating an identity leaves it, in the same step, with exactly one    *)
(* profile and exactly one role assignment, of role employe; an insert of a  *)
(* profile for an identity that already has one is never applied (an admin,  *)
(* whom the policies let through, is stopped by UNIQUE(user_id)) and leaves  *)
(* the profiles as they were.                                                *)
ProfilesOf(u, rows) == {p \in rows : p.user_id = u}

C7_IdentityCreation ==
    [][ /\ \A u \in UserIds : (u \notin users /\ u \in users') =>
              /\ Cardinality(ProfilesOf(u, profiles')) = 1
              /\ user_roles'[<<u, "employe">>] = 1
              /\ \A r \in app_role \ {"employe"} : user_roles'[<<u, r>>] = 0
        /\ (last'.ent = "profiles" /\ last'.op = "insert") =>
              /\ \A p \in profiles' \ profiles : ProfilesOf(p.user_id, profiles) = {}
              /\ (last'.admin /\ last'.no /\ ProfilesOf(last'.uid, profiles) # {})
                     => (last'.res = "constraint" /\ profiles' = profiles)
              /\ last'.res # "ok" => profiles' = profiles
      ]_vars

(* an identity has just been created and has its profile *)
C7_Witness ==
    /\ last.ent = "auth.users" /\ last.op = "insert" /\ last.res = "ok"
    /\ last.uid \in users
    /\ ProfilesOf(last.uid, profiles) # {}

(* C9: a non-admin reads a profile exactly when it is its own, updates a     *)
(* profile only when the row is its own before and after the update (it      *)
(* cannot hand the profile to another identity), and neither inserts nor     *)
(* deletes a profile; an admin reads, inserts, updates and deletes all.      *)
C9_Profiles ==
    last.ent = "profiles" =>
        IF last.admin THEN ~Denied(last.res)
        ELSE CASE last.op = "select" -> (last.res = "ok" <=> last.oo)
               [] last.op = "update" -> /\ ~Denied(last.res) <=> (last.oo /\ last.no)
                                        /\ last.res = "ok" => (last.oo /\ last.no)
               [] OTHER -> Denied(last.res)

(* a non-admin has been refused handing its own profile to another identity *)
C9_Witness ==
    /\ ~last.admin /\ last.ent = "profiles" /\ last.op = "update"
    /\ last.oo /\ ~last.no /\ last.res = "rls_error"

(* C10: a non-admin reads a role assignment exactly when it is its own and   *)
(* inserts, updates and deletes none; an admin reads and writes all.         *)
C10_Roles ==
    last.ent = "user_roles" =>
        IF last.admin THEN ~Denied(last.res)
        ELSE IF last.op = "select" THEN (last.res = "ok" <=> last.oo)
        ELSE Denied(last.res)

(* a non-admin has been refused the insert of a role assignment for itself *)
C10_Witness ==
    /\ ~last.admin /\ last.ent = "user_roles" /\ last.op = "insert"
    /\ last.no /\ last.res = "rls_error"

(***************************************************************************)
(* Updates that change no visible field, run by an admin and by a manager  *)
(* against a populated garage, in transactions started at the same or at   *)
(* later readings of the clock.                                            *)
(***************************************************************************)
InitClock ==
    Seeded({"admin", "employe"}, {"employe", "responsable"}, 1, 1, 1, 1)

NextClock ==
    \/ Tick /\ UNCHANGED ventesPage
    \/ \E uid \in users, row \in garages : UpdateGarage(uid, row) /\ UNCHANGED ventesPage
    \/ \E uid \in users, row \in profiles :
           UpdateProfile(uid, row, row.user_id, row.garage_id) /\ UNCHANGED ventesPage
    \/ \E uid \in users, row \in voitures :
           UpdateVoiture(uid, row, row.garage_id, row.disponible) /\ UNCHANGED ventesPage
    \/ \E uid \in users, row \in clients : UpdateClient(uid, row, row.garage_id) /\ UNCHANGED ventesPage
    \/ \E uid \in users, row \in ventes : UpdateVente(uid, row, row.garage_id) /\ UNCHANGED ventesPage

SpecClock == InitClock /\ [][NextClock]_vars

(* the update timestamp, if it has one, of the stored row with the identifier of row *)
StampOf(rows, row) ==
    {r.updated_at : r \in {q \in rows : q.id = row.id /\ "updated_at" \in DOMAIN q}}

C11_Garages ==
    last.ent = "garages" =>
        IF last.admin THEN ~Denied(last.res)
        ELSE /\ last.op = "select" => (last.res = "ok" <=> SqlEq(last.og, last.cg))
             /\ last.op \in Writes => Denied(last.res)
             /\ Cardinality({g \in garages : SqlEq(g.id, last.cg)})
                    = IF last.cg = NULL THEN 0 ELSE 1

(* a non-admin assigned to one garage has tried to read another garage *)
C11_Witness ==
    /\ ~last.admin /\ last.cg # NULL
    /\ last.ent = "garages" /\ last.op = "select"
    /\ last.og # last.cg /\ last.res = "no_rows"

(* C12: the update of a vente is permitted exactly when the caller is admin, *)
(* or is a manager and the garage of the vente, before and after the update, *)
(* is the garage of the caller's profile; a caller that is neither admin nor *)
(* manager is denied, also on a vente that names its own profile as employe. *)
C12_SaleUpdate ==
    (last.ent = "ventes" /\ last.op = "update") =>
        /\ ~Denied(last.res) <=>
              \/ last.admin
              \/ last.mgr /\ SqlEq(last.og, last.cg) /\ SqlEq(last.ng, last.cg)
        /\ (~last.admin /\ ~last.mgr) => last.res = "no_rows"

(* an employee has been denied the update of a vente of its garage that names it *)
C12_Witness ==
    /\ ~last.admin /\ ~last.mgr
    /\ last.ent = "ventes" /\ last.op = "update"
    /\ last.og = last.cg /\ last.ng = last.cg /\ last.res = "no_rows"
    /\ \E s \in ventes, p \in profiles : p.user_id = last.uid /\ s.employe_id = p.id

(* C13: a DELETE on ventes removes nothing, whoever issues it: every row is  *)
(* filtered out and the table is as it was.                                  *)
C13_SaleNeverDeleted ==
    [][ (last'.ent = "ventes" /\ last'.op = "delete") =>
            (last'.res = "no_rows" /\ ventes' = ventes) ]_vars

(* an admin has tried to delete a vente, which is still there *)
C13_Witness ==
    /\ last.admin /\ last.ent = "ventes" /\ last.op = "delete"
    /\ last.res = "no_rows"
    /\ \E s \in ventes : s.garage_id = last.og

(* C14: a caller without the admin role whose garage resolves to NULL (no    *)
(* profile, or a profile without garage) is denied every select, insert,     *)
(* update and delete on voitures, clients and ventes, whatever garage it     *)
(* supplies, and the select of every garage.                                 *)
C14_UnassignedDenied ==
    (/\ ~last.admin /\ last.cg = NULL
     /\ (last.ent \in Scoped \/ (last.ent = "garages" /\ last.op = "select")))
        => Denied(last.res)

(* an employee without profile has been refused the insert of a vente with no garage *)
C14_Witness ==
    /\ ~last.admin /\ last.cg = NULL /\ last.uid \in users
    /\ \A p \in profiles : p.user_id # last.uid
    /\ last.ent = "ventes" /\ last.op = "insert"
    /\ last.ng = NULL /\ last.res = "rls_error"

(* C15: an insert, update or delete that the policies deny changes no row of *)
(* any table.                                                                *)
C15_DeniedChangesNothing ==
    [][ (last'.op \in Writes /\ Denied(last'.res)) => UNCHANGED tables ]_vars

(* a manager has been refused moving a client of its garage to another garage *)
C15_Witness ==
    /\ ~last.admin /\ last.mgr
    /\ last.ent = "clients" /\ last.op = "update"
    /\ last.og = last.cg /\ last.ng # last.cg /\ last.res = "rls_error"

(* the rows of a table as the policies see them, and the garage of a row *)
RowsOf(ent) ==
    CASE ent = "garages"    -> garages
      [] ent = "profiles"   -> profiles
      [] ent = "user_roles" -> {RoleRow(k) : k \in RoleRows}
      [] ent = "voitures"   -> voitures
      [] ent = "clients"    -> clients
      [] ent = "ventes"     -> ventes
      [] OTHER              -> {}

RowGarage(ent, row) ==
    CASE ent = "garages"    -> row.id
      [] ent = "user_roles" -> NULL
      [] OTHER              -> row.garage_id

(* C16 as stated: the decision depends on the caller's identity, garage and  *)
(* roles, the garage of the target row, the operation and the entity only:   *)
(* the caller that has just read or been refused a row gets the same         *)
(* decision on every other row of that table with the same garage.           *)
C16_DecisionByGarage ==
    last.op = "select" =>
        \A row \in RowsOf(last.ent) :
            RowGarage(last.ent, row) = last.og
                => (CanSelect(last.ent, last.uid, row) <=> last.res = "ok")

(* the decision as a function of the entity, the operation, the caller's     *)
(* roles and garage, the garage of the row before and after, and whether the *)
(* row belongs to the caller before and after                                *)
Decision(ent, op, admin, mgr, cg, og, ng, oo, no) ==
    IF admin
    THEN CASE ent = "ventes" /\ op = "insert" -> SqlEq(ng, cg)
           [] ent = "ventes" /\ op = "delete" -> FALSE
           [] OTHER -> TRUE
    ELSE CASE ent = "garages"    -> op = "select" /\ SqlEq(og, cg)
           [] ent = "profiles"   -> \/ op = "select" /\ oo
                                    \/ op = "update" /\ oo /\ no
           [] ent = "user_roles" -> op = "select" /\ oo
           [] ent \in Scoped ->
                CASE op = "select" -> SqlEq(og, cg)
                  [] op = "insert" -> SqlEq(ng, cg) /\ (mgr \/ ent = "ventes")
                  [] op = "update" -> mgr /\ SqlEq(og, cg) /\ SqlEq(ng, cg)
                  [] op = "delete" -> mgr /\ SqlEq(og, cg) /\ ent # "ventes"

(* C16, amended: the decision is a function of the entity, the operation,    *)
(* the caller's roles and resolved garage, the garage of the target row as   *)
(* it is and as it would be written, and whether the row belongs to the      *)
(* caller as it is and as it would be written; a select and a denied write   *)
(* change no table.                                                          *)
C16_DecisionFunction ==
    [][ last'.ent \in Entities =>
          /\ ~Denied(last'.res) <=>
                 Decision(last'.ent, last'.op, last'.admin, last'.mgr, last'.cg,
                          last'.og, last'.ng, last'.oo, last'.no)
          /\ (last'.op = "select" \/ Denied(last'.res)) => UNCHANGED tables
      ]_vars

(* an employee has been refused the profile of a colleague of its own garage *)
C16_Witness ==
    /\ ~last.admin /\ last.ent = "profiles" /\ last.op = "select"
    /\ ~last.oo /\ last.og = last.cg /\ last.cg # NULL /\ last.res = "no_rows"
    /\ \E p \in profiles : p.user_id = last.uid /\ p.garage_id = last.og

(* C17: what a non-admin gets from a delete does not depend on rows it may   *)
(* not see: when its delete of a voiture or client is refused by the foreign *)
(* keys of ventes, some vente it can read accounts for the refusal (in the   *)
(* state without the ventes of other garages the result would be the same).  *)
C17_InvisibleRowsDoNotMatter ==
    (/\ ~last.admin /\ last.ent \in {"voitures", "clients"}
     /\ last.op = "delete" /\ last.res = "constraint")
        => \E s \in ventes : CanSelect("ventes", last.uid, s)

(* every vente references a voiture, a client and a profile that exist *)
SaleReferencesExist ==
    \A s \in ventes :
        /\ \E v \in voitures : v.id = s.voiture_id
        /\ \E c \in clients : c.id = s.client_id
        /\ \E p \in profiles : p.id = s.employe_id

(* C18: before and after every step every vente references an existing      *)
(* voiture, client and profile; a delete on voitures, clients or profiles    *)
(* removes no vente, so the delete of a referenced row is never applied, and *)
(* a delete that is not applied changes no table, whoever issues it.         *)
C18_SaleReferences ==
    [][ /\ SaleReferencesExist /\ SaleReferencesExist'
        /\ (last'.op = "delete" /\ last'.ent \in {"voitures", "clients", "profiles"}) =>
              /\ ventes' = ventes
              /\ last'.res # "ok" => UNCHANGED tables
      ]_vars

(* an admin has been refused the delete of a voiture that a vente references *)
C18_Witness ==
    /\ last.admin /\ last.ent = "voitures" /\ last.op = "delete"
    /\ last.res = "constraint"
    /\ \E s \in ventes, v \in voitures : s.voiture_id = v.id /\ v.garage_id = last.og

(* C19: in every state every voiture, client and vente has a garage          *)
(* reference that is not NULL and designates an existing garage; an insert   *)
(* or update that supplies NULL or a garage that does not exist is not       *)
(* applied.                                                                  *)
C19_GarageReferences ==
    /\ \A r \in voitures \cup clients \cup ventes :
           r.garage_id # NULL /\ GarageExists(r.garage_id)
    /\ (/\ last.ent \in Scoped /\ last.op \in {"insert", "update"}
        /\ (last.ng = NULL \/ ~GarageExists(last.ng)))
           => last.res # "ok"

(* an admin has been refused a voiture, client or vente of a garage that does not exist *)
C19_Witness ==
    /\ last.admin /\ last.ent \in Scoped /\ last.op \in {"insert", "update"}
    /\ last.ng # NULL /\ ~GarageExists(last.ng)
    /\ last.res = "constraint"

(* C20: in every state every existing identity has exactly one profile *)
C20_OneProfilePerIdentity ==
    \A u \in users : Cardinality(ProfilesOf(u, profiles)) = 1

(* C21: an identity can hold several roles, and before and after every step  *)
(* no (identity, role) pair has more than one row; an insert that is applied *)
(* adds a row for a pair that had none and an update that is applied moves a *)
(* row to a pair that had none (or rewrites it as it was), so a statement    *)
(* that would duplicate a pair is never applied; a statement refused by the  *)
(* constraint changes no table.                                              *)
C21_RolePairsUnique ==
    [][ /\ \A k \in UserIds \X app_role : user_roles[k] <= 1 /\ user_roles'[k] <= 1
        /\ (last'.ent = "user_roles" /\ last'.op = "insert" /\ last'.res = "ok") =>
               \E k \in UserIds \X app_role :
                   user_roles[k] = 0 /\ user_roles' = [user_roles EXCEPT ![k] = 1]
        /\ (last'.ent = "user_roles" /\ last'.op = "update" /\ last'.res = "ok") =>
               \/ user_roles' = user_roles
               \/ \E k \in RoleRows, r \in app_role :
                      /\ user_roles[<<k[1], r>>] = 0
                      /\ user_roles' = [user_roles EXCEPT ![k] = 0, ![<<k[1], r>>] = 1]
        /\ (last'.ent = "user_roles" /\ last'.res = "constraint") =>
               (last'.op \in {"insert", "update"} /\ UNCHANGED tables)
      ]_vars

(* an admin has been refused a second row for a pair, and an identity holds two roles *)
C21_Witness ==
    /\ last.admin /\ last.ent = "user_roles" /\ last.op = "insert"
    /\ last.res = "constraint"
    /\ \E u \in users : Cardinality({r \in app_role : user_roles[<<u, r>>] > 0}) >= 2

(* C24: the role assignments change only in the creation of an identity,     *)
(* which adds its employe row, or in a statement of a caller that holds the  *)
(* admin role; no statement of a non-admin adds, changes or removes one.     *)
C24_RolesChangeByAdminOnly ==
    [][ user_roles' # user_roles =>
           \/ /\ last'.ent = "auth.users"
              /\ user_roles' = [user_roles EXCEPT ![<<last'.uid, "employe">>] = 1]
           \/ last'.ent = "user_roles" /\ user_roles[<<last'.uid, "admin">>] > 0
      ]_vars

(* a manager without the admin role has been refused a role assignment for itself *)
C24_Witness ==
    /\ ~last.admin /\ last.mgr
    /\ last.ent = "user_roles" /\ last.op = "insert"
    /\ last.no /\ last.res = "rls_error"

(* C22 as stated: in every state the garage of every vente is the garage of  *)
(* the voiture and of the employe profile it references.                     *)
C22_SaleGarageConsistent ==
    \A s \in ventes :
        /\ \A v \in voitures : v.id = s.voiture_id => v.garage_id = s.garage_id
        /\ \A p \in profiles : p.id = s.employe_id => p.garage_id = s.garage_id

(* C22, amended: a vente enters the table only by an insert on ventes, with  *)
(* a garage that is not NULL and is the garage of the profile of the         *)
(* identity that inserts it; the garages of the voiture and of the employe   *)
(* profile it references are not compared with it.                           *)
C22_SaleGarageIsCallers ==
    [][ \A s \in ventes' :
            (\A t \in ventes : t.id # s.id) =>
                /\ last'.ent = "ventes" /\ last'.op = "insert" /\ last'.res = "ok"
                /\ s.garage_id # NULL
                /\ \E p \in profiles : p.user_id = last'.uid /\ p.garage_id = s.garage_id
      ]_vars

(* a vente has been inserted for a voiture that belongs to another garage *)
C22_Witness ==
    /\ last.ent = "ventes" /\ last.op = "insert" /\ last.res = "ok"
    /\ \E s \in ventes, v \in voitures :
           s.garage_id = last.ng /\ s.voiture_id = v.id /\ v.garage_id # s.garage_id

(* the rows of a table keep the garage they had *)
GaragesKept(old, new) ==
    \A r \in new : \E q \in old : q.id = r.id /\ q.garage_id = r.garage_id

(* C23: an update of a voiture, client or vente by a manager without the     *)
(* admin role is permitted only when the garage of the row before and after  *)
(* the update is the manager's own garage; when it is applied no row of the  *)
(* three tables has changed garage.                                          *)
C23_ManagerUpdateKeepsGarage ==
    [][ (/\ last'.ent \in Scoped /\ last'.op = "update"
         /\ ~last'.admin /\ last'.mgr /\ ~Denied(last'.res)) =>
            /\ last'.cg # NULL /\ last'.og = last'.cg /\ last'.ng = last'.cg
            /\ GaragesKept(voitures, voitures')
            /\ GaragesKept(clients, clients')
            /\ GaragesKept(ventes, ventes')
      ]_vars

(* a manager has updated a voiture of its garage *)
C23_Witness ==
    /\ ~last.admin /\ last.mgr /\ last.cg # NULL
    /\ last.ent = "voitures" /\ last.op = "update" /\ last.res = "ok"
    /\ \E v \in voitures : v.garage_id = last.cg

(* C25: when a submission of the sale form ends with its success message,    *)
(* the voiture it sold is not available any more, whatever the roles of the  *)
(* identity that submitted.                                                  *)
C25_SoldVehicleUnavailable ==
    [][ \A u \in UserIds :
            (ventesPage[u].pc = "inserted" /\ ventesPage'[u].pc = "success") =>
                \A v \in voitures' : v.id = ventesPage'[u].voiture_id => ~v.disponible
      ]_vars

(* C26: when the pages of two sessions both list a voiture as available, at  *)
(* most one vente references it, however their submissions interleave.       *)
C26_VehicleSoldOnce ==
    \A u1 \in users, u2 \in users, v \in VoitureIds :
        (/\ u1 # u2
         /\ v \in ventesPage[u1].voituresDisponibles
         /\ v \in ventesPage[u2].voituresDisponibles)
            => Cardinality({s \in ventes : s.voiture_id = v}) <= 1

(* C27: a submission of the voiture form that edits a voiture leaves the     *)
(* availability of that voiture as it was.                                   *)
C27_EditKeepsAvailability ==
    [][ \A uid \in users : \A role \in AuthRoles(uid), row \in voitures, g \in GarageArgs :
            VoituresHandleSubmit(uid, role, row, g) =>
                \A v \in voitures' : v.id = row.id => v.disponible = row.disponible
      ]_vars

(* C28: a submission of the client form that edits a client leaves the       *)
(* garage of that client as it was, for every caller.                        *)
C28_EditKeepsClientGarage ==
    [][ \A uid \in users : \A role \in AuthRoles(uid), row \in clients :
            ClientsHandleSubmit(uid, role, row) =>
                \A c \in clients' : c.id = row.id => c.garage_id = row.garage_id
      ]_vars

(* C29: the profile created with an identity has the identity's id and       *)
(* email, the names of the metadata or else 'Nouveau' and 'Utilisateur', and *)
(* no garage; a caller without admin role and without garage is refused the  *)
(* garages, voitures, clients and ventes, and a profile without garage gets  *)
(* one only by a statement of an admin.                                      *)
C29_NewIdentityProfile ==
    [][ /\ \A u \in UserIds, nom \in MetaNoms, prenom \in MetaPrenoms :
               on_auth_user_created(AuthUser(u, nom, prenom)) =>
                   \E p \in profiles' \ profiles :
                       /\ p.user_id = u /\ p.email = Email(u) /\ p.garage_id = NULL
                       /\ p.nom = IF nom = Absent THEN "Nouveau" ELSE nom
                       /\ p.prenom = IF prenom = Absent THEN "Utilisateur" ELSE prenom
        /\ (/\ last'.ent \in Scoped \cup {"garages"}
            /\ ~last'.admin /\ last'.cg = NULL) => Denied(last'.res)
        /\ \A p \in profiles, q \in profiles' :
               (q.id = p.id /\ p.garage_id = NULL /\ q.garage_id # NULL)
                   => user_roles[<<last'.uid, "admin">>] > 0
      ]_vars

====
